---- MODULE Spec2Model ----
(***************************************************************************)
(* Model of the reservation backend in src/app.py: the PostgreSQL tables   *)
(* users, email_codes and reservations, the Flask session of one client,   *)
(* and one action per HTTP handler.  Every handler is one atomic step; the *)
(* request it handled and the response it returned are kept in `last`.     *)
(* Columns and keys no handler branches on (name, notes, menu_items,       *)
(* created_at) are left out of the rows and payloads.                      *)
(***************************************************************************)
EXTENDS Integers, Sequences, FiniteSets, TLC

VARIABLES
    users,            \* table users: set of rows [email, password, verified]
    email_codes,      \* table email_codes: rows [email, code] in id order
    reservations,     \* table reservations: rows in insertion order
    res_seq,          \* last value handed out by reservations.id (SERIAL)
    session_user,     \* session["user"], JNull when the key is absent
    session_pending,  \* session["pending_booking"], JNull when absent
    last              \* the last request and its response

vars == <<users, email_codes, reservations, res_seq,
          session_user, session_pending, last>>

----------------------------------------------------------------------------
(* Bounds of the model. *)

MaxId == 2        \* reservations.id values handed out
MaxCodes == 3     \* rows of email_codes

----------------------------------------------------------------------------
(* JSON values as the handlers see them after request.get_json(). *)

JNull == [t |-> "null"]
JStr(s) == [t |-> "str", v |-> s]
JInt(n) == [t |-> "int", v |-> n]
JArr(a) == [t |-> "arr", v |-> a]
Empty == [k \in {} |-> JNull]

IsObject(d) == "t" \notin DOMAIN d

\* dict.get(k): the value, or None when the key is absent
Get(d, k) == IF k \in DOMAIN d THEN d[k] ELSE JNull

\* Python truthiness, as used by `if not x`
Truthy(x) ==
    IF IsObject(x) THEN DOMAIN x # {}
    ELSE CASE x.t = "null" -> FALSE
           [] x.t = "str" -> x.v # ""
           [] x.t = "int" -> x.v # 0
           [] x.t = "arr" -> x.v # <<>>

Without(d, k) == [x \in DOMAIN d \ {k} |-> d[x]]
With(d, k, val) == [x \in DOMAIN d \cup {k} |-> IF x = k THEN val ELSE d[x]]

Range(s) == {s[i] : i \in DOMAIN s}

----------------------------------------------------------------------------
(* Responses. status is the HTTP status, err names the error message:     *)
(*   required_fields       "Заполнены не все обязательные поля"  (450, 523) *)
(*   id_required           "reservation_id required" (560), "Missing or    *)
(*                         invalid reservation id field in JSON" (594)     *)
(*   no_json               "No valid JSON payload received ..."  (587)     *)
(*   reservation_not_found "Reservation not found"  (570, 611)             *)
(*   branch_date_required  "branch и date обязательны"  (425)              *)
(*   not_authorized        "Не авторизован"  (322, 511)                    *)
(*   create_failed         "Ошибка при создании брони"  (546)              *)
(*   no_data               "Нет данных"  (176, 226, 259, 494)              *)
(*   fill_all              "Заполните все поля"  (183)                     *)
(*   user_exists           "Пользователь уже существует"  (197)            *)
(*   email_required        "Email required"  (263)                         *)
(*   send_failed           "Не удалось отправить email"  (270)             *)
(*   email_code_required   "email и code обязательны"  (231)               *)
(*   code_not_found        "Код не найден"  (241)                          *)
(*   wrong_code            "Неверный код"  (245)                           *)
(*   email_password_required "Введите email и пароль"  (285)               *)
(*   user_not_found        "Пользователь не найден"  (294)                 *)
(*   not_verified          "Email не подтвержден"  (297)                   *)
(*   wrong_password        "Неверный пароль"  (300)                        *)
(*   unhandled             an exception that reaches Flask                 *)

Ok(body) == [status |-> 200, err |-> "none", body |-> body]
Err(status, err) == [status |-> status, err |-> err, body |-> Empty]
\* an exception no handler catches: Flask answers 500
Unhandled == Err(500, "unhandled")

\* again: the request repeats the one handled just before it
\* staged: session["pending_booking"] as the request found it
Req(op, arg, resp) ==
    [op |-> op, arg |-> arg, resp |-> resp,
     again |-> (last.op = op /\ last.arg = arg),
     staged |-> session_pending]

----------------------------------------------------------------------------
(* Column type DATE: the text forms PostgreSQL reads, and str(date).       *)

Jan1 == <<2024, 1, 1>>
Jan2 == <<2024, 1, 2>>
BadDate == <<0, 0, 0>>

ParseDate(s) ==
    CASE s = "2024-01-01" -> Jan1
      [] s = "20240101" -> Jan1
      [] s = "2024-01-02" -> Jan2
      [] OTHER -> BadDate

FormatDate(d) ==
    CASE d = Jan1 -> "2024-01-01"
      [] d = Jan2 -> "2024-01-02"

----------------------------------------------------------------------------
(* Table reservations. *)

ResIds == {reservations[i].id : i \in DOMAIN reservations}

\* InsertOutcome under a uniqueness constraint over branch, date and table
\* of the reservations that are not cancelled: a taken table is refused
InsertOutcome_Unique(user_email, branch, date, tables, guests) ==
    IF date.t = "str" /\ ParseDate(date.v) = BadDate THEN "syntax"
    ELSE IF JNull \in {user_email, branch, date, tables, guests} THEN "not_null"
    ELSE IF \E r \in Range(reservations) :
               /\ r.branch = branch.v
               /\ r.date = ParseDate(date.v)
               /\ r.status # "cancelled"
               /\ Range(r.tables) \cap Range(tables.v) # {}
    THEN "not_null"
    ELSE "ok"

\* The INSERT of create_reservation and claim_pending.  A malformed date
\* literal is rejected when the statement is analysed; a NULL in a
\* NOT NULL column is rejected after the id default has been computed.
InsertOutcome(user_email, branch, date, tables, guests) ==
    IF date.t = "str" /\ ParseDate(date.v) = BadDate THEN "syntax"
    ELSE IF JNull \in {user_email, branch, date, tables, guests} THEN "not_null"
    ELSE "ok"

\* NewRow with the status column written as confirmed
NewRow_Confirmed(id, user_email, branch, date, tables, guests) ==
    [id |-> id, user_email |-> user_email.v, branch |-> branch.v,
     date |-> ParseDate(date.v), tables |-> tables.v, guests |-> guests.v,
     status |-> "confirmed"]

\* the row the INSERT stores; status takes the column default
NewRow(id, user_email, branch, date, tables, guests) ==
    [id |-> id, user_email |-> user_email.v, branch |-> branch.v,
     date |-> ParseDate(date.v), tables |-> tables.v, guests |-> guests.v,
     status |-> "pending"]

----------------------------------------------------------------------------
(* POST /reservation *)

Required == {"user_email", "branch", "date", "tables", "guests"}

create_reservation(data) ==
    /\ UNCHANGED <<users, email_codes, session_user, session_pending>>
    /\ IF ~IsObject(data)
       THEN \* `k not in None` raises TypeError
            /\ last' = Req("create", data, Unhandled)
            /\ UNCHANGED <<reservations, res_seq>>
       ELSE IF \E k \in Required : k \notin DOMAIN data
       THEN /\ last' = Req("create", data, Err(400, "required_fields"))
            /\ UNCHANGED <<reservations, res_seq>>
       ELSE LET out == InsertOutcome(data.user_email, data.branch, data.date,
                                     data.tables, data.guests)
            IN CASE out = "syntax" ->
                      /\ last' = Req("create", data, Unhandled)
                      /\ UNCHANGED <<reservations, res_seq>>
                 [] out = "not_null" ->
                      /\ res_seq < MaxId
                      /\ res_seq' = res_seq + 1
                      /\ last' = Req("create", data, Unhandled)
                      /\ UNCHANGED reservations
                 [] out = "ok" ->
                      /\ res_seq < MaxId
                      /\ res_seq' = res_seq + 1
                      /\ reservations' = Append(reservations,
                            NewRow(res_seq + 1, data.user_email, data.branch,
                                   data.date, data.tables, data.guests))
                      /\ last' = Req("create", data,
                                     Ok([reservation_id |-> res_seq + 1]))

----------------------------------------------------------------------------
(* POST /reservation/confirm and POST /reservation/cancel *)

\* MatchId with the WHERE clause lost
MatchId_All(res_id) == DOMAIN reservations

\* MatchId that only finds rows still pending
MatchId_Pending(res_id) ==
    {i \in DOMAIN reservations :
        reservations[i].id = res_id /\ reservations[i].status = "pending"}

\* WHERE id = res_id: the positions of the rows the UPDATE touches
MatchId(res_id) == {i \in DOMAIN reservations : reservations[i].id = res_id}

\* SetStatus as a DELETE of the rows at `rows`
SetStatus_Delete(rows, s) ==
    SelectSeq(reservations,
              LAMBDA r : \A i \in rows : reservations[i].id # r.id)

\* UPDATE reservations SET status = s on the rows at `rows`
SetStatus(rows, s) ==
    [i \in DOMAIN reservations |->
        IF i \in rows
        THEN [reservations[i] EXCEPT !.status = s]
        ELSE reservations[i]]

confirm_reservation(data) ==
    /\ UNCHANGED <<users, email_codes, res_seq, session_user, session_pending>>
    /\ IF ~IsObject(data)
       THEN \* data.get on None raises AttributeError
            /\ last' = Req("confirm", data, Unhandled)
            /\ UNCHANGED reservations
       ELSE LET res_id == Get(data, "reservation_id")
            IN IF ~Truthy(res_id)
               THEN /\ last' = Req("confirm", data, Err(400, "id_required"))
                    /\ UNCHANGED reservations
               ELSE LET row == MatchId(res_id.v)
                    IN /\ reservations' = SetStatus(row, "confirmed")
                       /\ last' = Req("confirm", data,
                                      IF row = {}
                                      THEN Err(404, "reservation_not_found")
                                      ELSE Ok([reservation_id |-> res_id.v]))

cancel_reservation(data) ==
    /\ UNCHANGED <<users, email_codes, res_seq, session_user, session_pending>>
    /\ IF ~IsObject(data)
       THEN /\ last' = Req("cancel", data, Err(400, "no_json"))
            /\ UNCHANGED reservations
       ELSE LET res_id == Get(data, "id")
            IN IF ~Truthy(res_id)
               THEN /\ last' = Req("cancel", data, Err(400, "id_required"))
                    /\ UNCHANGED reservations
               ELSE LET row == MatchId(res_id.v)
                    IN /\ reservations' = SetStatus(row, "cancelled")
                       /\ last' = Req("cancel", data,
                                      IF row = {}
                                      THEN Err(404, "reservation_not_found")
                                      ELSE Ok(Empty))

----------------------------------------------------------------------------
(* GET /occupied *)

RECURSIVE Extend(_, _)
\* occupied.extend(row[0]) over the selected rows, in table order
Extend(rows, i) ==
    IF i > Len(rows) THEN <<>> ELSE rows[i].tables \o Extend(rows, i + 1)

\* OccupiedRows without the status condition
OccupiedRows_AnyStatus(branch, date) ==
    SelectSeq(reservations,
              LAMBDA r : r.branch = branch /\ r.date = date)

\* WHERE branch = %s AND date = %s AND status != 'cancelled'
OccupiedRows(branch, date) ==
    SelectSeq(reservations,
              LAMBDA r : /\ r.branch = branch
                         /\ r.date = date
                         /\ r.status # "cancelled")

get_occupied(branch, date) ==
    /\ UNCHANGED <<users, email_codes, reservations, res_seq,
                   session_user, session_pending>>
    /\ last' = Req("occupied", [branch |-> branch, date |-> date],
          IF ~Truthy(branch) \/ ~Truthy(date)
          THEN Err(400, "branch_date_required")
          ELSE IF ParseDate(date.v) = BadDate
          THEN Unhandled
          ELSE Ok([occupied |->
                     Extend(OccupiedRows(branch.v, ParseDate(date.v)), 1)]))

----------------------------------------------------------------------------
(* Tables users and email_codes: POST /register, POST /register/email,    *)
(* POST /verify-email.                                                     *)

\* generate_password_hash, and check_password_hash as its inverse test
PasswordHash(password) == <<"hash", password>>

\* random.randint(100000, 999999): the two ends of the range
CodeNumbers == {100000, 999999}

\* INSERT INTO email_codes (email, code); id is the next SERIAL value
InsertCode(email, code) ==
    Append(email_codes,
           [id |-> Len(email_codes) + 1, email |-> email, code |-> code])

\* str(random.randint(...)) stored for the email; n is the number drawn
generate_email_code(email, n) == InsertCode(email, ToString(n))

\* LatestCode reading the oldest row instead of the newest
LatestCode_Oldest(email) ==
    LET rows == {r \in Range(email_codes) : r.email = email}
    IN IF rows = {} THEN {}
       ELSE {(CHOOSE r \in rows : \A o \in rows : o.id >= r.id).code}

\* SELECT code FROM email_codes WHERE email=%s ORDER BY id DESC LIMIT 1,
\* as a set of at most one code
LatestCode(email) ==
    LET rows == {r \in Range(email_codes) : r.email = email}
    IN IF rows = {} THEN {}
       ELSE {(CHOOSE r \in rows : \A o \in rows : o.id <= r.id).code}

\* register that stores the new account as already verified
register_Verified(data, n, sent) ==
    /\ UNCHANGED <<reservations, res_seq, session_user, session_pending>>
    /\ IF ~Truthy(data)
       THEN /\ last' = Req("register", data, Err(400, "no_data"))
            /\ UNCHANGED <<users, email_codes>>
       ELSE LET name == Get(data, "name")
                email == Get(data, "email")
                password == Get(data, "password")
            IN IF ~Truthy(name) \/ ~Truthy(email) \/ ~Truthy(password)
               THEN /\ last' = Req("register", data, Err(400, "fill_all"))
                    /\ UNCHANGED <<users, email_codes>>
               ELSE IF \E u \in users : u.email = email.v
               THEN /\ last' = Req("register", data, Err(409, "user_exists"))
                    /\ UNCHANGED <<users, email_codes>>
               ELSE /\ Len(email_codes) < MaxCodes
                    /\ users' = users \cup
                          {[email |-> email.v,
                            password |-> PasswordHash(password.v),
                            verified |-> TRUE]}
                    /\ email_codes' = InsertCode(email.v, ToString(n))
                    /\ last' = Req("register", data,
                          [status |-> 201, err |-> "none",
                           body |-> [message |-> IF sent THEN "created"
                                                 ELSE "created_not_sent"]])

register(data, n, sent) ==
    /\ UNCHANGED <<reservations, res_seq, session_user, session_pending>>
    /\ IF ~Truthy(data)
       THEN /\ last' = Req("register", data, Err(400, "no_data"))
            /\ UNCHANGED <<users, email_codes>>
       ELSE LET name == Get(data, "name")
                email == Get(data, "email")
                password == Get(data, "password")
            IN IF ~Truthy(name) \/ ~Truthy(email) \/ ~Truthy(password)
               THEN /\ last' = Req("register", data, Err(400, "fill_all"))
                    /\ UNCHANGED <<users, email_codes>>
               ELSE IF \E u \in users : u.email = email.v
               THEN /\ last' = Req("register", data, Err(409, "user_exists"))
                    /\ UNCHANGED <<users, email_codes>>
               ELSE /\ Len(email_codes) < MaxCodes
                    /\ users' = users \cup
                          {[email |-> email.v,
                            password |-> PasswordHash(password.v),
                            verified |-> FALSE]}
                    /\ email_codes' = InsertCode(email.v, ToString(n))
                    /\ last' = Req("register", data,
                          [status |-> 201, err |-> "none",
                           body |-> [message |-> IF sent THEN "created"
                                                 ELSE "created_not_sent"]])

register_email(data, n, sent) ==
    /\ UNCHANGED <<users, reservations, res_seq, session_user, session_pending>>
    /\ IF ~Truthy(data)
       THEN /\ last' = Req("issue", data, Err(400, "no_data"))
            /\ UNCHANGED email_codes
       ELSE LET email == Get(data, "email")
            IN IF ~Truthy(email)
               THEN /\ last' = Req("issue", data, Err(400, "email_required"))
                    /\ UNCHANGED email_codes
               ELSE /\ Len(email_codes) < MaxCodes
                    /\ email_codes' = generate_email_code(email.v, n)
                    /\ last' = Req("issue", data,
                                   IF sent THEN Ok([message |-> "code_sent"])
                                   ELSE Err(500, "send_failed"))

verify_email(data) ==
    /\ UNCHANGED <<email_codes, reservations, res_seq, session_user,
                   session_pending>>
    /\ IF ~Truthy(data)
       THEN /\ last' = Req("verify", data, Err(400, "no_data"))
            /\ UNCHANGED users
       ELSE LET email == Get(data, "email")
                code == Get(data, "code")
            IN IF ~Truthy(email) \/ ~Truthy(code)
               THEN /\ last' = Req("verify", data, Err(400, "email_code_required"))
                    /\ UNCHANGED users
               ELSE LET record == LatestCode(email.v)
                    IN IF record = {}
                       THEN /\ last' = Req("verify", data,
                                           Err(400, "code_not_found"))
                            /\ UNCHANGED users
                       ELSE IF \E c \in record : JStr(c) # code
                       THEN /\ last' = Req("verify", data,
                                           Err(400, "wrong_code"))
                            /\ UNCHANGED users
                       ELSE /\ users' =
                                 {IF u.email = email.v
                                  THEN [u EXCEPT !.verified = TRUE]
                                  ELSE u : u \in users}
                            /\ last' = Req("verify", data,
                                           Ok([message |-> "verified"]))

----------------------------------------------------------------------------
(* POST /login/email *)

\* CheckPasswordHash that accepts every password
CheckPasswordHash_Any(hash, password) == TRUE

\* check_password_hash(user["password"], password)
CheckPasswordHash(hash, password) == hash = PasswordHash(password)

login_email(data) ==
    /\ UNCHANGED <<users, email_codes, reservations, res_seq, session_pending>>
    /\ IF ~Truthy(data)
       THEN /\ last' = Req("login", data, Err(400, "no_data"))
            /\ UNCHANGED session_user
       ELSE LET email == Get(data, "email")
                password == Get(data, "password")
            IN IF ~Truthy(email) \/ ~Truthy(password)
               THEN /\ last' = Req("login", data,
                                   Err(400, "email_password_required"))
                    /\ UNCHANGED session_user
               ELSE LET found == {u \in users : u.email = email.v}
                    IN IF found = {}
                       THEN /\ last' = Req("login", data,
                                           Err(404, "user_not_found"))
                            /\ UNCHANGED session_user
                       ELSE LET user == CHOOSE u \in found : TRUE
                            IN IF ~user.verified
                               THEN /\ last' = Req("login", data,
                                                   Err(403, "not_verified"))
                                    /\ UNCHANGED session_user
                               ELSE IF ~CheckPasswordHash(user.password,
                                                          password.v)
                               THEN /\ last' = Req("login", data,
                                                   Err(401, "wrong_password"))
                                    /\ UNCHANGED session_user
                               ELSE /\ session_user' =
                                          [email |-> JStr(user.email)]
                                    /\ last' = Req("login", data,
                                          Ok([user |->
                                                [email |-> JStr(user.email)]]))

----------------------------------------------------------------------------
(* GET /authorize and POST /logout *)

\* the identity Google returned becomes session["user"]
authorize(user_info) ==
    /\ session_user' = [email |-> Get(user_info, "email")]
    /\ last' = Req("authorize", user_info, [status |-> 302, err |-> "none",
                                            body |-> Empty])
    /\ UNCHANGED <<users, email_codes, reservations, res_seq, session_pending>>

logout ==
    /\ session_user' = JNull
    /\ last' = Req("logout", Empty, Ok(Empty))
    /\ UNCHANGED <<users, email_codes, reservations, res_seq, session_pending>>

----------------------------------------------------------------------------
(* POST /pending and POST /pending/claim *)

save_pending(data) ==
    /\ UNCHANGED <<users, email_codes, reservations, res_seq, session_user>>
    /\ IF ~Truthy(data)
       THEN /\ last' = Req("stage", data, Err(400, "no_data"))
            /\ UNCHANGED session_pending
       ELSE /\ session_pending' = data
            /\ last' = Req("stage", data, Ok(Empty))

PendingRequired == {"branch", "date", "tables", "guests"}

\* ClaimedPending that leaves the staged draft in the session
ClaimedPending_Kept == session_pending

\* session["pending_booking"] after flask_session.pop("pending_booking", None)
ClaimedPending == JNull

\* Authorized that lets every session through
Authorized_Always(user) == TRUE

\* `if not user` fails
Authorized(user) == Truthy(user)

\* ClaimDraft that prefers the session's draft to the body's
ClaimDraft_SessionFirst(body) ==
    LET b == IF Truthy(body) THEN body ELSE Empty
    IN IF Truthy(session_pending) THEN session_pending ELSE Get(b, "pending")

\* body.get("pending") or flask_session.get("pending_booking")
ClaimDraft(body) ==
    LET b == IF Truthy(body) THEN body ELSE Empty
    IN IF Truthy(Get(b, "pending")) THEN b.pending ELSE session_pending

claim_pending(body) ==
    LET user == session_user
        pending == ClaimDraft(body)
    IN
    /\ UNCHANGED <<users, email_codes, session_user>>
    /\ IF ~Authorized(user)
       THEN /\ last' = Req("claim", body, Err(401, "not_authorized"))
            /\ UNCHANGED <<reservations, res_seq, session_pending>>
       ELSE IF ~Truthy(pending)
       THEN /\ last' = Req("claim", body, Ok([message |-> "no_pending"]))
            /\ UNCHANGED <<reservations, res_seq, session_pending>>
       ELSE IF \E k \in PendingRequired : k \notin DOMAIN pending
       THEN /\ last' = Req("claim", body, Err(400, "required_fields"))
            /\ UNCHANGED <<reservations, res_seq, session_pending>>
       ELSE LET user_email == Get(user, "email")
                out == InsertOutcome(user_email, pending.branch, pending.date,
                                     pending.tables, pending.guests)
            IN CASE out = "syntax" ->
                      \* the except branch: 500, the draft stays
                      /\ last' = Req("claim", body, Err(500, "create_failed"))
                      /\ UNCHANGED <<reservations, res_seq, session_pending>>
                 [] out = "not_null" ->
                      /\ res_seq < MaxId
                      /\ res_seq' = res_seq + 1
                      /\ last' = Req("claim", body, Err(500, "create_failed"))
                      /\ UNCHANGED <<reservations, session_pending>>
                 [] out = "ok" ->
                      /\ res_seq < MaxId
                      /\ res_seq' = res_seq + 1
                      /\ reservations' = Append(reservations,
                            NewRow(res_seq + 1, user_email, pending.branch,
                                   pending.date, pending.tables,
                                   pending.guests))
                      /\ session_pending' = ClaimedPending
                      /\ last' = Req("claim", body,
                                     Ok([reservation_id |-> res_seq + 1]))

----------------------------------------------------------------------------
(* GET /user/bookings *)

BookingView(r) ==
    [id |-> r.id, date |-> FormatDate(r.date), branch |-> r.branch,
     persons |-> r.guests, status |-> r.status]

\* the rows of the answer; ORDER BY date DESC leaves ties unordered, so the
\* answer is kept as the set of its rows
user_bookings(user) ==
    IF ~Truthy(user)
    THEN Err(401, "not_authorized")
    ELSE Ok([bookings |->
               {BookingView(r) : r \in {x \in Range(reservations) :
                                           x.user_email = user.email}}])

----------------------------------------------------------------------------
(* Requests of the model. *)

Emails == {"a@x.com", "b@x.com"}
Branches == {"B1", "B2"}

BasePayload ==
    [user_email |-> JStr("a@x.com"), branch |-> JStr("B1"),
     date |-> JStr("2024-01-01"), tables |-> JArr(<<"T1">>),
     guests |-> JInt(2)]

\* bodies create_reservation does not accept
BadCreateBodies ==
    {JNull, Empty}
    \cup {Without(BasePayload, k) : k \in Required}
    \cup {With(BasePayload, k, JNull) : k \in Required}
    \cup {With(BasePayload, "date", JStr("not-a-date"))}

LifecycleBodies ==
    {[user_email |-> JStr(e), branch |-> JStr(b),
      date |-> JStr("2024-01-01"), tables |-> JArr(<<"T1">>),
      guests |-> JInt(2)] : e \in Emails, b \in Branches}
    \cup BadCreateBodies

IdValues == {JNull} \cup {JInt(n) : n \in 0..(MaxId + 1)}

ConfirmBodies ==
    {JNull, Empty} \cup {[reservation_id |-> x] : x \in IdValues}

CancelBodies ==
    {JNull, Empty} \cup {[id |-> x] : x \in IdValues}

\* reservations that differ in branch, date and tables
OccupancySlots ==
    {<<"B1", "2024-01-01">>, <<"B1", "2024-01-02">>, <<"B2", "2024-01-01">>}

OccupancyBodies ==
    {[user_email |-> JStr("a@x.com"), branch |-> JStr(s[1]),
      date |-> JStr(s[2]), tables |-> JArr(ts), guests |-> JInt(2)] :
        s \in OccupancySlots, ts \in {<<"T1">>, <<"T1", "T2">>}}

StoredIdBodies(key) == {[k \in {key} |-> JInt(n)] : n \in 1..MaxId}

DraftA ==
    [branch |-> JStr("B1"), date |-> JStr("2024-01-01"),
     tables |-> JArr(<<"T1">>), guests |-> JInt(2)]
DraftB ==
    [branch |-> JStr("B2"), date |-> JStr("2024-01-02"),
     tables |-> JArr(<<"T1", "T2">>), guests |-> JInt(2)]

\* drafts: two complete ones, drafts that lack a key, and drafts the
\* INSERT refuses
Drafts ==
    {DraftA, DraftB}
    \cup {Without(DraftA, k) : k \in PendingRequired}
    \cup {With(DraftA, "tables", JNull), With(DraftA, "date", JStr("not-a-date"))}

StageBodies == Drafts \cup {JNull, Empty}
ClaimBodies == {JNull} \cup {[pending |-> d] : d \in Drafts \cup {Empty}}
Identities == {[email |-> JStr(e)] : e \in Emails}

RegisterBodies ==
    {[name |-> JStr("Ann"), email |-> JStr(e), password |-> JStr("pw1")] :
        e \in Emails}
    \cup {JNull, [name |-> JStr("Ann"), email |-> JStr("a@x.com")]}

IssueBodies == {JNull, Empty} \cup {[email |-> JStr(e)] : e \in Emails}

\* a code is submitted as a JSON string or as a JSON number
SubmittedCodes ==
    {JStr(ToString(n)) : n \in CodeNumbers} \cup {JInt(n) : n \in CodeNumbers}

VerifyBodies ==
    {[email |-> JStr(e), code |-> c] : e \in Emails, c \in SubmittedCodes}
    \cup {JNull, [email |-> JStr("a@x.com")]}

LoginBodies ==
    {[email |-> JStr(e), password |-> JStr(pw)] :
        e \in Emails, pw \in {"pw1", "pw2"}}
    \cup {JNull, [email |-> JStr("a@x.com")]}

QueryBranches == {JNull} \cup {JStr(b) : b \in Branches}
QueryDates ==
    {JNull} \cup {JStr(d) : d \in {"2024-01-01", "20240101", "2024-01-02",
                                     "not-a-date"}}

----------------------------------------------------------------------------

Init ==
    /\ users = {}
    /\ email_codes = <<>>
    /\ reservations = <<>>
    /\ res_seq = 0
    /\ session_user = JNull
    /\ session_pending = JNull
    /\ last = [op |-> "none", arg |-> Empty, resp |-> Ok(Empty),
               again |-> FALSE]

Create == \E data \in LifecycleBodies : create_reservation(data)
Confirm == \E data \in ConfirmBodies : confirm_reservation(data)
Cancel == \E data \in CancelBodies : cancel_reservation(data)

Next ==
    \/ Create
    \/ Confirm
    \/ Cancel

Spec == Init /\ [][Next]_vars

\* the occupancy query over a store that Create, Confirm and Cancel change
OccCreate == \E data \in OccupancyBodies : create_reservation(data)
OccConfirm ==
    \E data \in StoredIdBodies("reservation_id") : confirm_reservation(data)
OccCancel == \E data \in StoredIdBodies("id") : cancel_reservation(data)
Occupied ==
    \E branch \in QueryBranches, date \in QueryDates :
        get_occupied(branch, date)

NextOcc ==
    \/ OccCreate
    \/ OccConfirm
    \/ OccCancel
    \/ Occupied

SpecOcc == Init /\ [][NextOcc]_vars

\* one client session: sign in and out, stage a draft, claim it
Authorize == \E user_info \in Identities : authorize(user_info)
Logout == logout
Stage == \E data \in StageBodies : save_pending(data)
Claim == \E body \in ClaimBodies : claim_pending(body)

NextClaim ==
    \/ Authorize
    \/ Logout
    \/ Stage
    \/ Claim

SpecClaim == Init /\ [][NextClaim]_vars

\* accounts and verification codes
Register ==
    \E data \in RegisterBodies, n \in CodeNumbers, sent \in BOOLEAN :
        register(data, n, sent)
Issue ==
    \E data \in IssueBodies, n \in CodeNumbers, sent \in BOOLEAN :
        register_email(data, n, sent)
Verify == \E data \in VerifyBodies : verify_email(data)

NextVerify ==
    \/ Register
    \/ Issue
    \/ Verify

SpecVerify == Init /\ [][NextVerify]_vars

\* accounts, verification codes and password login in one session
Login == \E data \in LoginBodies : login_email(data)

NextLogin ==
    \/ Register
    \/ Issue
    \/ Verify
    \/ Login
    \/ Logout

SpecLogin == Init /\ [][NextLogin]_vars

----------------------------------------------------------------------------
(* The error taxonomy of the specification, read off a response. *)

Succeeded(r) == r.status \in {200, 201}
ValidationError(r) == r.status = 400 /\ r.err \notin {"code_not_found", "wrong_code"}
NotFoundError(r) == r.status = 404 \/ (r.status = 400 /\ r.err = "code_not_found")
MismatchError(r) == r.status = 400 /\ r.err = "wrong_code"
AuthError(r) == r.status = 401
InternalError(r) == r.status = 500

\* List-for-owner for `email` answers with the reservation `id`
Listed(id, email) ==
    LET resp == user_bookings([email |-> email])
    IN Succeeded(resp) /\ \E b \in resp.body.bookings : b.id = id

HasRequired(data) == IsObject(data) /\ Required \subseteq DOMAIN data

\* every required value is one its column accepts
WellFormed(data) ==
    /\ HasRequired(data)
    /\ \A k \in Required : data[k] # JNull
    /\ ParseDate(data.date.v) # BadDate

\* the integer a Confirm or Cancel body names, as a set of at most one
NamedId(op, data) ==
    LET key == IF op = "confirm" THEN "reservation_id" ELSE "id"
    IN IF IsObject(data) /\ key \in DOMAIN data /\ data[key].t = "int"
       THEN {data[key].v} ELSE {}

----------------------------------------------------------------------------
(* Claims about the reservation lifecycle, checked under Spec. *)

\* C1 as stated: every Create whose payload contains user_email, branch,
\* date, tables and guests succeeds and adds a reservation.
C1_AnyPayloadWithAllKeys ==
    (last.op = "create" /\ HasRequired(last.arg))
        => /\ Succeeded(last.resp)
           /\ last.resp.body.reservation_id \in ResIds

\* C1 amended: a Create whose payload contains all five fields with values
\* their columns accept (none null, a readable date) succeeds with an
\* identifier no reservation had, the new reservation is pending and owned
\* by the payload's email, no two reservations share an identifier, and
\* every stored reservation is listed for its owner after every step.
C1_CreateStep ==
    (last'.op = "create" /\ WellFormed(last'.arg))
        => /\ Succeeded(last'.resp)
           /\ last'.resp.body.reservation_id \notin ResIds
           /\ \E i \in DOMAIN reservations' :
                 /\ reservations'[i].id = last'.resp.body.reservation_id
                 /\ reservations'[i].status = "pending"
                 /\ reservations'[i].user_email = last'.arg.user_email.v
                 /\ \A j \in DOMAIN reservations' :
                       reservations'[j].id = reservations'[i].id => j = i
                 /\ \E n \in 1..MaxId, e \in Emails :
                       /\ n = reservations'[i].id
                       /\ e = reservations'[i].user_email
                       /\ Listed(n, e)'

C1_StaysListed ==
    \A r \in Range(reservations) : Listed(r.id, r.user_email)'

\* C1 amended, as one property of every step: the Create step above, and
\* a stored reservation is still listed for its owner after the step.
C1_CreatePendingListed == [][C1_CreateStep /\ C1_StaysListed]_vars

C1_Witness ==
    /\ last.op = "create" /\ WellFormed(last.arg) /\ Succeeded(last.resp)
    /\ last.resp.body.reservation_id = 2
    /\ Len(reservations) = 2
    /\ reservations[1].status = "cancelled"
    /\ reservations[2].status = "pending"
    /\ reservations[1].user_email # reservations[2].user_email
    /\ Listed(2, reservations[2].user_email)

\* C2 as stated: a confirmed or cancelled reservation never changes status.
C2_TerminalStatus ==
    [][\A i \in DOMAIN reservations :
          reservations[i].status \in {"confirmed", "cancelled"}
              => reservations'[i].status = reservations[i].status]_vars

\* C4 as stated: Confirm and Cancel of any identifier that is not in the
\* store fail with NotFoundError and change no reservation.
C4_AnyUnknownId ==
    [][\A n \in NamedId(last'.op, last'.arg) :
          (last'.op \in {"confirm", "cancel"} /\ n \notin ResIds)
              => NotFoundError(last'.resp) /\ reservations' = reservations]_vars

\* C4 amended: Confirm and Cancel of any non-zero integer identifier that is
\* not in the store fail with NotFoundError and change no reservation; the
\* identifier 0 is refused with ValidationError, also changing nothing.
C4_UnknownIdNotFound ==
    [][\A n \in NamedId(last'.op, last'.arg) :
          (last'.op \in {"confirm", "cancel"} /\ n \notin ResIds)
              => /\ reservations' = reservations
                 /\ IF n = 0 THEN ValidationError(last'.resp)
                             ELSE NotFoundError(last'.resp)]_vars

C4_Witness ==
    /\ last.op \in {"confirm", "cancel"}
    /\ NotFoundError(last.resp)
    /\ reservations # <<>>
    /\ \E r \in Range(reservations) : r.status = "pending"

\* C5: Cancel of an existing reservation succeeds and leaves it cancelled,
\* and a Cancel that repeats a successful Cancel succeeds again and leaves
\* the store exactly as the first one left it.
C5_CancelIdempotent ==
    [][\A n \in NamedId(last'.op, last'.arg) :
          (last'.op = "cancel" /\ n \in ResIds)
              => /\ Succeeded(last'.resp)
                 /\ \A r \in Range(reservations') :
                       r.id = n => r.status = "cancelled"
                 /\ (last'.again /\ Succeeded(last.resp))
                       => reservations' = reservations]_vars

C5_Witness ==
    /\ last.op = "cancel" /\ last.again /\ Succeeded(last.resp)
    /\ \E r \in Range(reservations) :
          r.id \in NamedId("cancel", last.arg) /\ r.status = "cancelled"

\* C6 as stated: a Create request that lacks any of the required fields
\* fails with ValidationError and adds no reservation.
C6_MissingFieldRejected ==
    [][(last'.op = "create" /\ ~HasRequired(last'.arg))
          => ValidationError(last'.resp) /\ reservations' = reservations]_vars

----------------------------------------------------------------------------
(* Claims about the occupancy query, checked under SpecOcc. *)

\* the tables of the reservations of a branch and date that are pending or
\* confirmed
ActiveTables(b, d) ==
    UNION {Range(r.tables) :
              r \in {x \in Range(reservations) :
                        /\ x.branch = b
                        /\ x.date = d
                        /\ x.status \in {"pending", "confirmed"}}}

CancelledTables(b, d) ==
    UNION {Range(r.tables) :
              r \in {x \in Range(reservations) :
                        x.branch = b /\ x.date = d /\ x.status = "cancelled"}}

\* C3: the Occupancy query changes no stored state, and for a branch and a
\* date it answers with exactly the tables of that branch's and date's
\* pending and confirmed reservations.
C3_OccupiedIsActiveTables ==
    [][last'.op = "occupied"
          => /\ UNCHANGED <<users, email_codes, reservations, res_seq,
                            session_user, session_pending>>
             /\ \A b \in Branches, d \in {Jan1, Jan2} :
                   ( /\ last'.arg.branch = JStr(b)
                     /\ last'.arg.date # JNull
                     /\ ParseDate(last'.arg.date.v) = d )
                       => /\ Succeeded(last'.resp)
                          /\ Range(last'.resp.body.occupied)
                                = ActiveTables(b, d)]_vars

C3_Witness ==
    /\ last.op = "occupied" /\ Succeeded(last.resp)
    /\ last.arg.date = JStr("20240101")
    /\ "T1" \in Range(last.resp.body.occupied)
    /\ "T2" \notin Range(last.resp.body.occupied)
    /\ "T2" \in CancelledTables(last.arg.branch.v, Jan1)
    /\ \E r \in Range(reservations) : r.status = "confirmed"

----------------------------------------------------------------------------
(* Claims about the staged draft, checked under SpecClaim. *)

\* the request body carries a draft of its own
BodyDraft(body) == Truthy(body) /\ Truthy(Get(body, "pending"))

\* a draft that has every required field with a value its column accepts
ValidDraft(d) ==
    /\ IsObject(d)
    /\ PendingRequired \subseteq DOMAIN d
    /\ \A k \in PendingRequired : d[k] # JNull
    /\ ParseDate(d.date.v) # BadDate

\* a draft that lacks a required field
LacksField(d) == Truthy(d) /\ \E k \in PendingRequired : k \notin DOMAIN d

\* this step appended exactly one reservation, pending, owned by the
\* session's identity and holding the draft d, and cleared the staged draft
ClaimedOnce(d) ==
    /\ Succeeded(last'.resp)
    /\ Len(reservations') = Len(reservations) + 1
    /\ SubSeq(reservations', 1, Len(reservations)) = reservations
    /\ LET r == reservations'[Len(reservations')]
       IN /\ r.id = last'.resp.body.reservation_id
          /\ r.id \notin ResIds
          /\ r.user_email = session_user.email.v
          /\ r.status = "pending"
          /\ r.branch = d.branch.v
          /\ r.date = ParseDate(d.date.v)
          /\ r.tables = d.tables.v
          /\ r.guests = d.guests.v
    /\ session_pending' = JNull

NoOpSuccess ==
    /\ Succeeded(last'.resp)
    /\ "reservation_id" \notin DOMAIN last'.resp.body
    /\ UNCHANGED <<reservations, res_seq, session_pending>>

\* C7: a Claim in a session without an identity fails with AuthError, adds
\* no reservation and leaves the staged draft as it was.
C7_UnauthenticatedClaim ==
    [][(last'.op = "claim" /\ ~Truthy(session_user))
          => /\ AuthError(last'.resp)
             /\ UNCHANGED <<reservations, res_seq, session_pending,
                            session_user>>]_vars

C7_Witness ==
    /\ last.op = "claim" /\ AuthError(last.resp)
    /\ session_user = JNull
    /\ ValidDraft(session_pending)
    /\ reservations = <<>>

\* C8 as stated: every Claim of an authenticated session that holds a valid
\* staged draft creates one reservation from it and clears it, and every
\* Claim of an authenticated session with nothing staged is a no-op.
C8_EveryClaim ==
    [][(last'.op = "claim" /\ Truthy(session_user))
          => /\ ValidDraft(session_pending) => ClaimedOnce(session_pending)
             /\ session_pending = JNull => NoOpSuccess]_vars

\* C8 amended: the same for every Claim whose request body supplies no
\* draft of its own; and only Stage puts a draft into the session.
C8_StagedDraftConsumedOnce ==
    [][/\ (last'.op = "claim" /\ Truthy(session_user)
              /\ ~BodyDraft(last'.arg))
          => /\ ValidDraft(session_pending) => ClaimedOnce(session_pending)
             /\ session_pending = JNull => NoOpSuccess
       /\ (session_pending' # session_pending /\ session_pending' # JNull)
          => last'.op = "stage"]_vars

C8_Witness ==
    /\ last.op = "claim" /\ last.again /\ ~BodyDraft(last.arg)
    /\ Succeeded(last.resp) /\ "message" \in DOMAIN last.resp.body
    /\ session_pending = JNull
    /\ Truthy(session_user)
    /\ Len(reservations) = 1
    /\ reservations[1].user_email = session_user.email.v

\* C9 as stated: an authenticated Claim that finds a staged draft lacking a
\* required field fails with ValidationError, adds no reservation and
\* removes the staged draft.
C9_InvalidDraftRemoved ==
    [][(last'.op = "claim" /\ Truthy(session_user) /\ ~BodyDraft(last'.arg)
          /\ LacksField(session_pending))
          => /\ ValidationError(last'.resp)
             /\ reservations' = reservations
             /\ session_pending' = JNull]_vars

----------------------------------------------------------------------------
(* Claims about verification codes, checked under SpecVerify. *)

\* the codes issued for an email, oldest first
IssuedCodes(email) ==
    LET rows == SelectSeq(email_codes, LAMBDA r : r.email = email)
    IN [i \in DOMAIN rows |-> rows[i].code]

\* C10: a Verify that submits an email and a code fails with NotFoundError
\* when no code was issued for the email, succeeds when the submitted code
\* is the string issued last for the email, and fails with MismatchError
\* for every other code, a superseded one included.
C10_VerifyLatestCode ==
    [][\A e \in Emails, c \in SubmittedCodes :
          (last'.op = "verify" /\ last'.arg = [email |-> JStr(e), code |-> c])
              => LET issued == IssuedCodes(e)
                 IN IF issued = <<>> THEN NotFoundError(last'.resp)
                    ELSE IF c = JStr(issued[Len(issued)])
                    THEN Succeeded(last'.resp)
                    ELSE MismatchError(last'.resp)]_vars

C10_Witness ==
    /\ last.op = "verify" /\ MismatchError(last.resp)
    /\ LET issued == IssuedCodes(last.arg.email.v)
       IN /\ Len(issued) = 2
          /\ last.arg.code = JStr(issued[1])
          /\ issued[1] # issued[2]

\* C11: an account appears only through Register and with verified false;
\* the flag of an account turns true only in a Verify step for its email
\* that succeeds with the code issued last for that email; and no step
\* deletes an account or turns a true flag back to false.  By induction
\* over the steps, every verified account has had such a Verify.
C11_VerifiedOnlyByVerify ==
    [][/\ \A u \in users' :
             (\A o \in users : o.email # u.email)
                 => ~u.verified /\ last'.op = "register"
       /\ \A u \in users' :
             (u.verified /\ ~(\E o \in users : o.email = u.email /\ o.verified))
                 => /\ last'.op = "verify"
                    /\ Succeeded(last'.resp)
                    /\ Get(last'.arg, "email") = JStr(u.email)
                    /\ IssuedCodes(u.email) # <<>>
                    /\ Get(last'.arg, "code")
                          = JStr(IssuedCodes(u.email)[Len(IssuedCodes(u.email))])
       /\ \A o \in users :
             \E u \in users' :
                 u.email = o.email /\ (o.verified => u.verified)]_vars

C11_Witness ==
    /\ last.op = "verify" /\ Succeeded(last.resp)
    /\ \E u \in users : u.verified /\ JStr(u.email) = last.arg.email
    /\ \E u \in users : ~u.verified

----------------------------------------------------------------------------
(* Claims about double booking, checked under SpecOcc. *)

\* two reservations that are not cancelled hold the same table for the
\* same branch and date
DoubleBooked ==
    \E i, j \in DOMAIN reservations :
        /\ i # j
        /\ reservations[i].branch = reservations[j].branch
        /\ reservations[i].date = reservations[j].date
        /\ reservations[i].status # "cancelled"
        /\ reservations[j].status # "cancelled"
        /\ Range(reservations[i].tables) \cap Range(reservations[j].tables) # {}

\* C12: a Create whose payload is acceptable and names a table that a
\* pending or confirmed reservation of the same branch and date already
\* holds succeeds all the same and stores its reservation, which leaves
\* the table double booked.
C12_CreateIgnoresOccupancy ==
    [][(/\ last'.op = "create"
        /\ WellFormed(last'.arg)
        /\ Range(last'.arg.tables.v)
              \cap ActiveTables(last'.arg.branch.v,
                                ParseDate(last'.arg.date.v)) # {})
          => /\ Succeeded(last'.resp)
             /\ Len(reservations') = Len(reservations) + 1
             /\ DoubleBooked']_vars

C12_Witness ==
    /\ last.op = "create" /\ Succeeded(last.resp)
    /\ DoubleBooked
    /\ Len(reservations) = 2
    /\ reservations[2].id = last.resp.body.reservation_id
    /\ reservations[1].status = "confirmed"

----------------------------------------------------------------------------
(* Claims about password login, checked under SpecLogin, where password    *)
(* login is the only way to an identity.                                   *)

\* the account a login request names exists, is verified and has the
\* request's password
LoginAccepted(data) ==
    /\ Truthy(data)
    /\ Truthy(Get(data, "email")) /\ Truthy(Get(data, "password"))
    /\ \E u \in users :
          /\ u.email = data.email.v
          /\ u.verified
          /\ u.password = PasswordHash(data.password.v)

\* C13: a password login succeeds and sets the session identity to the
\* account's email exactly when the account exists, is verified and the
\* password matches, and otherwise fails and leaves the identity as it
\* was; the identity of the session always names a verified account; and
\* an account's flag turns true only in a successful Verify for its email.
C13_LoginOnlyVerified ==
    /\ [](session_user # JNull
            => \E u \in users :
                  JStr(u.email) = session_user.email /\ u.verified)
    /\ [][/\ last'.op = "login"
             => IF LoginAccepted(last'.arg)
                THEN /\ Succeeded(last'.resp)
                     /\ session_user' = [email |-> last'.arg.email]
                ELSE /\ ~Succeeded(last'.resp)
                     /\ session_user' = session_user
          /\ \A u \in users' :
                (u.verified /\ [u EXCEPT !.verified = FALSE] \in users)
                    => /\ last'.op = "verify" /\ Succeeded(last'.resp)
                       /\ Get(last'.arg, "email") = JStr(u.email)]_vars

C13_Witness ==
    /\ last.op = "login" /\ Succeeded(last.resp)
    /\ session_user = [email |-> last.arg.email]
    /\ \E u \in users : JStr(u.email) = session_user.email /\ u.verified
    /\ \E u \in users : ~u.verified

----------------------------------------------------------------------------
(* A draft in the request body against a staged draft, under SpecClaim. *)

\* C14: an authenticated Claim whose body supplies a draft while the
\* session holds a staged draft works from the body draft only: with a
\* valid body draft it succeeds, and whenever it succeeds the one
\* reservation it appends holds the body draft's fields and the staged
\* draft is removed from the session; the staged draft's fields reach the
\* reservation only where the two drafts agree.
C14_BodyDraftOverridesStaged ==
    [][(/\ last'.op = "claim" /\ Truthy(session_user)
        /\ BodyDraft(last'.arg) /\ Truthy(session_pending))
          => /\ ValidDraft(last'.arg.pending) => Succeeded(last'.resp)
             /\ Succeeded(last'.resp)
                   => /\ ValidDraft(last'.arg.pending)
                      /\ ClaimedOnce(last'.arg.pending)
             /\ ~Succeeded(last'.resp)
                   => UNCHANGED <<reservations, session_pending>>]_vars

C14_Witness ==
    /\ last.op = "claim" /\ Succeeded(last.resp)
    /\ BodyDraft(last.arg) /\ last.arg.pending = DraftB
    /\ last.staged = DraftA
    /\ session_pending = JNull
    /\ Len(reservations) = 1
    /\ reservations[1].branch = DraftB.branch.v
    /\ reservations[1].tables = DraftB.tables.v

----------------------------------------------------------------------------
(* What Confirm and Cancel leave alone, checked under Spec. *)

\* the status a Confirm or a Cancel writes
TargetStatus(op) == IF op = "confirm" THEN "confirmed" ELSE "cancelled"

\* C15: a Confirm or a Cancel keeps every reservation in its place and
\* changes at most the status of the reservation whose identifier the
\* request names, to the operation's status; a Create keeps every earlier
\* reservation as it was; and no step removes an identifier from the store.
C15_OnlyStatusChanges ==
    [][/\ last'.op \in {"confirm", "cancel"}
          => /\ DOMAIN reservations' = DOMAIN reservations
             /\ \A i \in DOMAIN reservations :
                   \/ reservations'[i] = reservations[i]
                   \/ /\ reservations[i].id \in NamedId(last'.op, last'.arg)
                      /\ Succeeded(last'.resp)
                      /\ reservations'[i] =
                            [reservations[i]
                                EXCEPT !.status = TargetStatus(last'.op)]
       /\ last'.op = "create"
          => /\ Len(reservations') >= Len(reservations)
             /\ SubSeq(reservations', 1, Len(reservations)) = reservations
       /\ ResIds \subseteq ResIds'
       /\ Len(reservations') >= Len(reservations)]_vars

C15_Witness ==
    /\ last.op = "cancel" /\ Succeeded(last.resp)
    /\ Len(reservations) = 2
    /\ \E i, j \in DOMAIN reservations :
          /\ i # j
          /\ reservations[i].id \in NamedId("cancel", last.arg)
          /\ reservations[i].status = "cancelled"
          /\ reservations[i].user_email # reservations[j].user_email
          /\ reservations[j].status = "confirmed"

====
